---- MODULE Spec2Model ----
(***************************************************************************)
(* Question extraction of backend/core/services/pdf_service.py:            *)
(* QuestionExtractor._clean_text, _extract_with_confidence,                *)
(* _calculate_confidence, _post_process_questions and _final_clean.        *)
(*                                                                         *)
(* A text is a sequence of one-character strings, positions count from 1.  *)
(* A confidence is an integer number of thousandths (1000 is 1.0): every   *)
(* product the scorer can form (0.5, 0.8, 1.2 and 1.1 applied to 1.0) is a *)
(* whole number of thousandths, and the only comparison, with 0.5, is      *)
(* exact in binary floating point for the one product equal to it.         *)
(***************************************************************************)
EXTENDS Integers, Sequences, FiniteSets, TLC

\* ---------------------------------------------------------------- characters

Digits == {"0", "1", "2", "3", "4", "5", "6", "7", "8", "9"}

\* \s of the re module, over the characters the inputs use.
Whitespace == {" ", "\n", "\t"}

UpperCase ==
  <<"A","B","C","D","E","F","G","H","I","J","K","L","M",
    "N","O","P","Q","R","S","T","U","V","W","X","Y","Z">>

LowerCase ==
  <<"a","b","c","d","e","f","g","h","i","j","k","l","m",
    "n","o","p","q","r","s","t","u","v","w","x","y","z">>

Range(s) == {s[i] : i \in DOMAIN s}

\* \w of the re module: letters, digits and the underscore.
WordChars == Range(UpperCase) \cup Range(LowerCase) \cup Digits \cup {"_"}

\* The characters line 106 keeps: [\w\s\n.?,:;()\[\]-].
KeptChars == WordChars \cup Whitespace \cup {".", "?", ",", ":", ";", "(", ")", "[", "]", "-"}

\* [.:\s], the separator class after an id.
SepChars == Whitespace \cup {".", ":"}

\* [\s.], the optional character between a marker and its id.
OptSepChars == Whitespace \cup {"."}

\* Case folding of re.IGNORECASE.
Lower(c) ==
  IF c \in Range(UpperCase)
    THEN LowerCase[CHOOSE i \in DOMAIN UpperCase : UpperCase[i] = c]
    ELSE c

\* The character at position i, "" outside the text.
At(t, i) == IF i \in 1..Len(t) THEN t[i] ELSE ""

Min(S) == CHOOSE x \in S : \A y \in S : x <= y

\* str.strip(): leading and trailing whitespace removed.
Strip(t) ==
  LET inside == {i \in 1..Len(t) : t[i] \notin Whitespace}
  IN  IF inside = {} THEN <<>>
      ELSE SubSeq(t, Min(inside), CHOOSE x \in inside : \A y \in inside : y <= x)

\* Whether the literal lit stands in t at position p; fold folds the case of
\* the text first (lit is then given in lower case).
LitAt(t, p, lit, fold) ==
  /\ p + Len(lit) - 1 <= Len(t)
  /\ \A k \in 1..Len(lit) : (IF fold THEN Lower(t[p + k - 1]) ELSE t[p + k - 1]) = lit[k]

\* The position just after the line of position p: of the next "\n" at or
\* after p, or Len(t) + 1.
LineEnd(t, p) ==
  IF p > Len(t) THEN p
  ELSE Min({q \in p..(Len(t) + 1) : q = Len(t) + 1 \/ t[q] = "\n"})

\* ------------------------------------------------------------ _clean_text

\* NOISE_PATTERNS, in list order. lit is the literal part of the pattern in
\* lower case (the patterns are applied with re.IGNORECASE); rest says that
\* the pattern ends in .*, which takes the rest of the line ('.' does not
\* match a line break without re.DOTALL).
NOISE_PATTERNS ==
  <<
    [lit |-> <<"h","e","r","e"," ","i","s"," ","t","h","e"," ","a","n","s",
              "w","e","r"," ","t","o"," ","t","h","e"," ","q","u","e","s",
              "t","i","o","n">>,
     rest |-> TRUE],
    [lit |-> <<"i"," ","h","o","p","e"," ","t","h","i","s"," ","h","e","l",
              "p","s","!">>,
     rest |-> FALSE],
    [lit |-> <<"l","e","t"," ","m","e"," ","k","n","o","w"," ","i","f"," ",
              "y","o","u"," ","h","a","v","e"," ","a","n","y"," ","f","u",
              "r","t","h","e","r"," ","q","u","e","s","t","i","o","n","s">>,
     rest |-> TRUE],
    [lit |-> <<"i","n"," ","s","u","m","m","a","r","y",",">>,
     rest |-> TRUE],
    [lit |-> <<"t","h","e"," ","f","o","l","l","o","w","i","n","g"," ","a",
              "r","e"," ","k","e","y"," ","p","o","i","n","t","s">>,
     rest |-> TRUE],
    [lit |-> <<"p","l","e","a","s","e"," ","n","o","t","e"," ","t","h","a",
              "t">>,
     rest |-> TRUE],
    [lit |-> <<"a","n","s","w","e","r"," ","i","n"," ","h","t","m","l"," ",
              "f","o","r","m","a","t",":">>,
     rest |-> FALSE],
    [lit |-> <<"k","n","o","w"," ","i","f"," ","y","o","u"," ","n","e","e",
              "d"," ","a","n","y"," ","c","h","a","n","g","e","s">>,
     rest |-> TRUE]
  >>

\* The position just after the match of noise pattern np that starts at p,
\* or 0 when np does not match at p.
NoiseMatchEnd(np, t, p) ==
  IF ~LitAt(t, p, np.lit, TRUE) THEN 0
  ELSE IF np.rest THEN LineEnd(t, p + Len(np.lit))
  ELSE p + Len(np.lit)

\* Whether noise pattern np matches somewhere in t (re.search).
HasNoise(np, t) == \E p \in 1..Len(t) : NoiseMatchEnd(np, t, p) > 0

\* The result of a substitution is a sequence of cells: c is the character,
\* from the position in the text before the substitution that the character
\* is copied from, 0 for a character the replacement put there.
\* (<<>> \o f is the function f as a sequence.)
Copy(t, a, b) ==
  <<>> \o [j \in 1..(b - a + 1) |-> [c |-> t[a + j - 1], from |-> a + j - 1]]

\* The replacement lit for the positions a..b of t: a replacement equal to
\* what it replaces leaves the characters where they are.
Replace(t, a, b, lit) ==
  IF SubSeq(t, a, b) = lit THEN Copy(t, a, b)
  ELSE <<>> \o [j \in 1..Len(lit) |-> [c |-> lit[j], from |-> 0]]

Chars(cells) == <<>> \o [j \in 1..Len(cells) |-> cells[j].c]

\* re.sub(pattern, '', text, flags=re.IGNORECASE) from position p on: one
\* pass from left to right; the leftmost match at or after p is dropped and
\* the scan goes on after it.
RECURSIVE SubNoise(_, _, _)
SubNoise(np, t, p) ==
  LET starts == {q \in p..Len(t) : NoiseMatchEnd(np, t, q) > 0}
  IN  IF starts = {} THEN Copy(t, p, Len(t))
      ELSE Copy(t, p, Min(starts) - 1)
           \o SubNoise(np, t, NoiseMatchEnd(np, t, Min(starts)))

\* The end of the maximal run of characters of class at p: the first
\* position at or after p whose character is not in class.
RunEnd(t, p, class) ==
  IF p > Len(t) THEN p
  ELSE Min({q \in p..(Len(t) + 1) : At(t, q) \notin class})

\* re.sub of a pattern [class]+ by ' ' from position p on: the matches are
\* the maximal runs of characters of class; a character outside class is
\* kept, the first character of a run gives the one space that replaces the
\* run, and the other characters of the run are dropped.
SubRuns(t, p, class) ==
  LET RunStart(i) == t[i] \in class /\ (i = p \/ t[i - 1] \notin class)
      Kept(i)     == i >= p /\ (t[i] \notin class \/ RunStart(i))
      Cell(i)     == IF t[i] \notin class THEN [c |-> t[i], from |-> i]
                     ELSE Replace(t, i, RunEnd(t, i, class) - 1, <<" ">>)[1]
      kept        == SelectSeq([i \in 1..Len(t) |-> i], Kept)
  IN  <<>> \o [j \in 1..Len(kept) |-> Cell(kept[j])]

\* re.sub(r'[ \t]+', ' ', t) from position p on: runs of blanks become one
\* space, line breaks stay.
SubBlanksOnly(t, p) == SubRuns(t, p, {" ", "\t"})

\* re.sub(r'\s+', ' ', t) from position p on: every run of whitespace
\* becomes one space.
SubWhitespace(t, p) == SubRuns(t, p, Whitespace)

\* Where r'\n\s*\n' matches from position p: a line break and the longest
\* whitespace run after it that still ends in a line break. The position
\* after the match, or 0.
BlankLinesEnd(t, p) ==
  LET ends == {q \in (p + 1)..(RunEnd(t, p + 1, Whitespace) - 1) : t[q] = "\n"}
  IN  IF t[p] = "\n" /\ ends # {}
        THEN (CHOOSE q \in ends : \A r \in ends : r <= q) + 1
        ELSE 0

\* re.sub(r'\n\s*\n', '\n', t) from position p on.
RECURSIVE SubBlankLines(_, _)
SubBlankLines(t, p) ==
  LET starts == {q \in p..Len(t) : BlankLinesEnd(t, q) > 0}
  IN  IF starts = {} THEN Copy(t, p, Len(t))
      ELSE Copy(t, p, Min(starts) - 1)
           \o Replace(t, Min(starts), BlankLinesEnd(t, Min(starts)) - 1, <<"\n">>)
           \o SubBlankLines(t, BlankLinesEnd(t, Min(starts)))

\* Where r'Q\s*\.\s*' matches from position p: the position after the
\* match, or 0.
QDotEnd(t, p) ==
  LET dot == RunEnd(t, p + 1, Whitespace)
  IN  IF t[p] = "Q" /\ At(t, dot) = "." THEN RunEnd(t, dot + 1, Whitespace) ELSE 0

\* re.sub(r'Q\s*\.\s*', 'Q.', t) from position p on.
RECURSIVE SubQDot(_, _)
SubQDot(t, p) ==
  LET starts == {q \in p..Len(t) : QDotEnd(t, q) > 0}
  IN  IF starts = {} THEN Copy(t, p, Len(t))
      ELSE Copy(t, p, Min(starts) - 1)
           \o Replace(t, Min(starts), QDotEnd(t, Min(starts)) - 1, <<"Q", ".">>)
           \o SubQDot(t, QDotEnd(t, Min(starts)))

Question == <<"Q","u","e","s","t","i","o","n">>

\* Where r'Question\s+' matches from position p: the position after the
\* match, or 0.
QuestionEnd(t, p) ==
  LET ws  == p + Len(Question)
      end == RunEnd(t, ws, Whitespace)
  IN  IF LitAt(t, p, Question, FALSE) /\ end > ws THEN end ELSE 0

\* re.sub(r'Question\s+', 'Question ', t) from position p on.
RECURSIVE SubQuestion(_, _)
SubQuestion(t, p) ==
  LET starts == {q \in p..Len(t) : QuestionEnd(t, q) > 0}
  IN  IF starts = {} THEN Copy(t, p, Len(t))
      ELSE Copy(t, p, Min(starts) - 1)
           \o Replace(t, Min(starts), QuestionEnd(t, Min(starts)) - 1, Question \o <<" ">>)
           \o SubQuestion(t, QuestionEnd(t, Min(starts)))

\* re.sub(r'[^\w\s\n.?,:;()\[\]-]', '', t).
SubDisallowed(t) ==
  LET Keep(cell) == cell.c \in KeptChars
  IN  SelectSeq(Copy(t, 1, Len(t)), Keep)

\* str.strip() as a substitution: the cells between the first and the last
\* character that is no whitespace.
StripCells(t) ==
  LET inside == {i \in 1..Len(t) : t[i] \notin Whitespace}
  IN  IF inside = {} THEN <<>>
      ELSE Copy(t, Min(inside), CHOOSE x \in inside : \A y \in inside : y <= x)

\* One substitution after another: out is the result of a substitution on
\* the characters of prev; from is taken back to the text prev stems from.
Then(prev, out) ==
  <<>> \o [j \in 1..Len(out) |->
             [c |-> out[j].c,
              from |-> IF out[j].from = 0 THEN 0 ELSE prev[out[j].from].from]]

\* The loop of lines 94-95 left out: no noise pattern is applied.
NoiseKept(cells, k) == cells

\* The loop of lines 94-95: the patterns are applied one after the other.
RECURSIVE RemoveNoise(_, _)
RemoveNoise(cells, k) ==
  IF k > Len(NOISE_PATTERNS) THEN cells
  ELSE LET out == Then(cells, SubNoise(NOISE_PATTERNS[k], Chars(cells), 1))
       IN  IF out = <<>> THEN out ELSE RemoveNoise(out, k + 1)

\* The cells of _clean_text(t): its characters, each with the position in t
\* it stems from. The substitutions in the order the code makes them; the
\* last one gives the result.
CleanCells(t) ==
  LET noiseless  == RemoveNoise(Copy(t, 1, Len(t)), 1)
      collapsed  == Then(noiseless, SubWhitespace(Chars(noiseless), 1))
      unblanked  == Then(collapsed, SubBlankLines(Chars(collapsed), 1))
      qdot       == Then(unblanked, SubQDot(Chars(unblanked), 1))
      question   == Then(qdot, SubQuestion(Chars(qdot), 1))
      allowed    == Then(question, SubDisallowed(Chars(question)))
      stripped   == Then(allowed, StripCells(Chars(allowed)))
  IN  <<noiseless, collapsed, unblanked, qdot, question, allowed, stripped>>[7]

\* QuestionExtractor._clean_text.
_clean_text(t) == Chars(CleanCells(t))

\* ----------------------------------------------------------- _final_clean

\* _final_clean without lines 190-191: no punctuation is appended.
FinalCleanUnpunctuated(t) == Strip(Chars(SubWhitespace(t, 1)))

\* QuestionExtractor._final_clean: whitespace collapsed, stripped, and a '.'
\* appended to a text that is not empty and ends in neither '.' nor '?'.
_final_clean(t) ==
  LET s == Strip(Chars(SubWhitespace(t, 1)))
  IN  IF s # <<>> /\ s[Len(s)] \notin {".", "?"} THEN Append(s, ".") ELSE s

\* --------------------------------------------------------------- PATTERNS

Problem == <<"P","r","o","b","l","e","m">>

Exercise == <<"E","x","e","r","c","i","s","e">>

\* PATTERNS, in list order. Every pattern reads
\*   (?:^|\n) open marker [\s.]? id close [.:\s]+ text (?= \n start-token | $)
\* and is applied with re.MULTILINE | re.DOTALL.
\*   open, close  the literal brackets around marker and id (bracketed format)
\*   markers      what the regex tries for the marker, in its order; <<>> is
\*                "no marker": the optional group of the bracketed format
\*                left out, or a pattern that has no marker at all
\*   group        whether the pattern has a group named marker
\*   optSep       whether [\s.]? stands between marker and id
\*   lookSep      whether the start token of the lookahead ends in [.:\s]+
PATTERNS ==
  <<
    [open |-> <<>>, markers |-> <<(<<"Q">>), Question>>, group |-> TRUE,
     optSep |-> TRUE, close |-> <<>>, lookSep |-> FALSE],
    [open |-> <<>>, markers |-> <<(<<>>)>>, group |-> FALSE,
     optSep |-> FALSE, close |-> <<>>, lookSep |-> TRUE],
    [open |-> <<"[">>, markers |-> <<(<<"Q", ".">>), (<<"Q">>), (<<>>)>>, group |-> TRUE,
     optSep |-> FALSE, close |-> <<"]">>, lookSep |-> FALSE],
    [open |-> <<>>, markers |-> <<Problem, Exercise>>, group |-> TRUE,
     optSep |-> TRUE, close |-> <<>>, lookSep |-> FALSE]
  >>

\* open, the marker mk, [\s.]?, \d+, close and, with sep, [.:\s]+ matched
\* from position h: the positions of the id and the position after the
\* token. Every quantifier is greedy and none can give a character back to
\* what follows it (a digit is no separator, a separator is no digit).
Token(pat, t, h, mk, sep) ==
  LET afterMarker == h + Len(pat.open) + Len(mk)
      idStart     == IF pat.optSep /\ At(t, afterMarker) \in OptSepChars
                       THEN afterMarker + 1 ELSE afterMarker
      idEnd       == RunEnd(t, idStart, Digits)
      afterClose  == idEnd + Len(pat.close)
      end         == IF sep THEN RunEnd(t, afterClose, SepChars) ELSE afterClose
  IN  [ok      |-> /\ LitAt(t, h, pat.open, FALSE)
                   /\ LitAt(t, h + Len(pat.open), mk, FALSE)
                   /\ idEnd > idStart
                   /\ LitAt(t, idEnd, pat.close, FALSE)
                   /\ (sep => end > afterClose),
       idStart |-> idStart, idEnd |-> idEnd, end |-> end]

\* The start token of the lookahead at position q: a line break and the
\* token of the pattern, the marker not captured.
StartToken(pat, t, q) ==
  /\ At(t, q) = "\n"
  /\ \E k \in DOMAIN pat.markers : Token(pat, t, q + 1, pat.markers[k], pat.lookSep).ok

\* '$' at position q under re.MULTILINE: the end of the text, and just
\* before every line break.
EndOfLine(t, q) == q = Len(t) + 1 \/ At(t, q) = "\n"

\* The lookahead (?=(?:\n start-token)|$) at position q.
Lookahead(pat, t, q) == StartToken(pat, t, q) \/ EndOfLine(t, q)

\* int(match.group('id')).
RECURSIVE IntOf(_)
IntOf(ds) ==
  IF ds = <<>> THEN 0
  ELSE 10 * IntOf(SubSeq(ds, 1, Len(ds) - 1))
       + (CHOOSE d \in 0..9 : ToString(d) = ds[Len(ds)])

NoMatch == [ok |-> FALSE]

\* The match of pat that starts at position p, if there is one. (?:^|\n):
\* the token starts at p when p starts a line, else after a line break at p.
\* (?P<text>.*?) is lazy and, under re.DOTALL, crosses line breaks: it ends
\* at the first position where the lookahead holds.
MatchAt(pat, t, p) ==
  LET Try(h) ==
        LET alts == {k \in DOMAIN pat.markers : Token(pat, t, h, pat.markers[k], TRUE).ok}
        IN  IF alts = {} THEN NoMatch
            ELSE LET mk      == pat.markers[Min(alts)]
                     tok     == Token(pat, t, h, mk, TRUE)
                     textEnd == Min({q \in tok.end..(Len(t) + 1) : Lookahead(pat, t, q)})
                 IN  [ok     |-> TRUE,
                      start  |-> p,
                      end    |-> textEnd,
                      groups |-> IF pat.group THEN {"marker", "id", "text"} ELSE {"id", "text"},
                      marker |-> mk,
                      id     |-> SubSeq(t, tok.idStart, tok.idEnd - 1),
                      textStart |-> tok.end,
                      text   |-> SubSeq(t, tok.end, textEnd - 1)]
      atLineStart == IF p = 1 \/ At(t, p - 1) = "\n" THEN Try(p) ELSE NoMatch
  IN  IF atLineStart.ok THEN atLineStart
      ELSE IF At(t, p) = "\n" THEN Try(p + 1)
      ELSE NoMatch

\* The next match re.finditer yields: the leftmost one that starts at or
\* after position from (the end of the match before it).
NextMatch(pat, t, from) ==
  LET starts == {p \in from..Len(t) : MatchAt(pat, t, p).ok}
  IN  IF starts = {} THEN NoMatch ELSE MatchAt(pat, t, Min(starts))

\* ------------------------------------------------- _calculate_confidence

\* The minimum confidence threshold of line 130, in thousandths.
MinConfidence == 500

\* QuestionExtractor._calculate_confidence, for a match that has a marker
\* group; marker <<>> is the group that took no part in the match (None).
\* Lines 160-161 compute nothing.
_calculate_confidence(text, match) ==
  LET byLength == IF Len(text) < 10 THEN (1000 * 5) \div 10
                  ELSE IF Len(text) > 500 THEN (1000 * 8) \div 10
                  ELSE 1000
      byMarker == IF match.marker # <<>> THEN (byLength * 12) \div 10 ELSE byLength
      byMark   == IF "?" \in Range(text) THEN (byMarker * 11) \div 10 ELSE byMarker
  IN  IF byMark < 1000 THEN byMark ELSE 1000

\* ------------------------------------------------ _post_process_questions

\* Line 138 without sorted(): the list in the order of acceptance.
Unsorted(ms) == ms

\* sorted(question_matches, key=lambda x: x.question_id): stable.
RECURSIVE SortById(_)
SortById(ms) ==
  IF ms = <<>> THEN <<>>
  ELSE LET rest == SortById(SubSeq(ms, 1, Len(ms) - 1))
           last == ms[Len(ms)]
           Before(m) == m.question_id <= last.question_id
           After(m)  == m.question_id > last.question_id
       IN  SelectSeq(rest, Before) \o <<last>> \o SelectSeq(rest, After)

\* QuestionExtractor._post_process_questions.
RECURSIVE _post_process_questions(_)
_post_process_questions(matches) ==
  IF matches = <<>> THEN <<>>
  ELSE LET cleaned_text == _final_clean(matches[1].question_text)
           rest         == _post_process_questions(Tail(matches))
       IN  IF cleaned_text # <<>>
             THEN <<[question_id |-> matches[1].question_id, question |-> cleaned_text]>> \o rest
             ELSE rest

\* ------------------------------------------------------------------ inputs

\* The lines the input texts are made of: questions of the four formats,
\* with ids that collide across formats, bodies shorter and longer than 10
\* characters, with and without '?', an empty body, a line that continues a
\* question, and noise phrases.
Lines ==
  <<
    <<"Q",".","3"," ","W","h","a","t"," ","i","s"," ","X","?">>,
    <<"3","."," ","D","i","f","f","e","r","e","n","t"," ","t","e","x","t">>,
    <<"2","."," ","a","b","c">>,
    <<"Q","1","."," ","F","i","r","s","t"," ","q","u","e","s","t","i","o","n">>,
    <<"Q","u","e","s","t","i","o","n"," ","2",":"," ","a","b","c">>,
    <<"[","1","]"," ","a","b","c">>,
    <<"[","1","]"," ","A"," ","l","o","n","g"," ","q","u","e","s","t","i","o","n">>,
    <<"[","Q",".","2","]"," ","w","h","y","?">>,
    <<"P","r","o","b","l","e","m"," ","3",":"," ","s","o","l","v","e"," ","i","t">>,
    <<"t","h","e"," ","a","n","s","w","e","r">>,
    <<"Q","2","."," ">>,
    <<"I"," ","h","o","p","e"," ","t","h","i","s"," ","h","e","l","p","s","!">>,
    <<"I","n"," ","s","u","m","m","a","r","y",","," ","n","o">>
  >>

BoundaryExample ==
  <<"Q","1","."," ","F","i","r","s","t"," ","q","u","e","s","t","i","o",
    "n"," ","t","e","x","t"," ","h","e","r","e"," ","Q","2","."," ","S",
    "e","c","o","n","d"," ","q","u","e","s","t","i","o","n"," ","t","e",
    "x","t"," ","h","e","r","e">>

NoiseExample ==
  <<"Q",".","1"," ","W","h","a","t"," ","i","s"," ","X","?"," ","H","e",
    "r","e"," ","i","s"," ","t","h","e"," ","a","n","s","w","e","r"," ",
    "t","o"," ","t","h","e"," ","q","u","e","s","t","i","o","n",":"," ",
    "b","l","a","h","."," ","I"," ","h","o","p","e"," ","t","h","i","s",
    " ","h","e","l","p","s","!">>

NestedNoiseExample ==
  <<"Q","1","."," ","W","h","a","t"," ","i","s"," ","X","?"," ","A","n",
    "s","w","e","r"," ","i","n"," ","A","n","s","w","e","r"," ","i","n",
    " ","H","T","M","L"," ","f","o","r","m","a","t",":","H","T","M","L",
    " ","f","o","r","m","a","t",":">>

PrecedenceExample ==
  <<"Q",".","3"," ","W","h","a","t"," ","i","s"," ","X","?","\n","3",
    "."," ","D","i","f","f","e","r","e","n","t"," ","t","e","x","t",
    "\n","4","."," ","O","t","h","e","r"," ","t","e","x","t">>

\* Stray spacing in the markers, characters outside the allow-set and blank
\* lines.
SpellingExample ==
  <<"Q","u","e","s","t","i","o","n"," "," "," ","2",":","\t","I","s",
    " ","#","1"," ","(","a","+","b",")","?","\n","\n"," ","Q"," ",".",
    " ","1"," ","x">>

\* A bracketed question without marker and an explicit-marker question
\* whose bodies are longer than 500 characters.
LongBracketed == <<"[", "1", "]", " ">> \o [i \in 1..501 |-> "a"]

LongExplicit == <<"Q", "2", ".", " ">> \o [i \in 1..501 |-> "a"]

\* The most lines of an input text, and the most candidates of a list given
\* to _post_process_questions.
MaxLines == 2

\* The lines numbered by ls, joined by line breaks.
RECURSIVE JoinLines(_)
JoinLines(ls) ==
  IF Len(ls) = 1 THEN Lines[ls[1]]
  ELSE Lines[ls[1]] \o <<"\n">> \o JoinLines(Tail(ls))

\* The texts of one to MaxLines lines.
Texts ==
  {JoinLines(ls) : ls \in UNION {[1..n -> DOMAIN Lines] : n \in 1..MaxLines}}

\* What extract_questions may get from _extract_text_blocks.
RawTexts ==
  Texts \cup {BoundaryExample, NoiseExample, NestedNoiseExample, SpellingExample}

\* What _extract_with_confidence may be called with directly.
DirectTexts == Texts \cup {PrecedenceExample, LongBracketed, LongExplicit}

\* Question texts of accepted candidates, for _post_process_questions.
Bodies ==
  {<<>>, <<" ", "\n">>, <<"a", " ", "\t", "b">>, <<"W", "h", "y", "?">>,
   <<"x", ".">>, <<" ", "a", "b", "c", "\n">>}

\* Lists of accepted candidates as _extract_with_confidence returns them:
\* ids strictly ascending.
MatchLists ==
  UNION {
    {ms \in [1..n -> [question_id : 1..(MaxLines + 1), question_text : Bodies,
                      confidence : {1000}]] :
       \A i \in 1..(n - 1) : ms[i].question_id < ms[i + 1].question_id}
    : n \in 0..MaxLines}

\* ------------------------------------------------------------------- state

VARIABLES
  entry,             \* the function that was called
  raw,               \* the text extract_questions got from the block extractor
  text,              \* the text given to _extract_with_confidence
  pc,                \* where the call stands
  pattern,           \* the index in PATTERNS of the outer loop
  pos,               \* where re.finditer goes on searching
  match,             \* what re.finditer yielded last, NoMatch when it is used up
  question_matches,  \* the QuestionMatch list
  seen_questions,    \* the ids accepted so far
  candidates,        \* every match the inner loop has taken up, with its outcome
  result,            \* what _post_process_questions returned
  error              \* the exception that left the call, "" if none

vars ==
  <<entry, raw, text, pc, pattern, pos, match, question_matches, seen_questions,
    candidates, result, error>>

InitLoop ==
  /\ pattern = 1
  /\ pos = 1
  /\ match = NoMatch
  /\ question_matches = <<>>
  /\ seen_questions = {}
  /\ candidates = <<>>
  /\ result = <<>>
  /\ error = ""

\* extract_questions on a raw text (after _extract_text_blocks, line 51).
InitPipeline ==
  /\ entry = "extract_questions"
  /\ raw \in RawTexts
  /\ text = <<>>
  /\ pc = "clean"
  /\ InitLoop

\* _extract_with_confidence called on a text that may hold line breaks.
InitExtract ==
  /\ entry = "_extract_with_confidence"
  /\ raw = <<>>
  /\ text \in DirectTexts
  /\ pc = "iterate"
  /\ InitLoop

\* _post_process_questions called on a list of accepted candidates.
InitPostProcess ==
  /\ entry = "_post_process_questions"
  /\ raw = <<>>
  /\ text = <<>>
  /\ pc = "post"
  /\ pattern = 1
  /\ pos = 1
  /\ match = NoMatch
  /\ question_matches \in MatchLists
  /\ seen_questions = {}
  /\ candidates = <<>>
  /\ result = <<>>
  /\ error = ""

Init == InitPipeline \/ InitExtract \/ InitPostProcess

\* ----------------------------------------------------------------- actions

\* Line 54: cleaned_text = _clean_text(text_blocks); line 57 then enters
\* _extract_with_confidence.
Clean ==
  /\ pc = "clean"
  /\ text' = _clean_text(raw)
  /\ pc' = "iterate"
  /\ UNCHANGED <<entry, raw, pattern, pos, match, question_matches, seen_questions,
                 candidates, result, error>>

\* Line 119: re.finditer is asked for the next match of the pattern.
Iterate ==
  /\ pc = "iterate"
  /\ match' = NextMatch(PATTERNS[pattern], text, pos)
  /\ pc' = "matched"
  /\ UNCHANGED <<entry, raw, text, pattern, pos, question_matches, seen_questions,
                 candidates, result, error>>

\* Line 120.
q_id == IntOf(match.id)

\* Line 121.
q_text == Strip(match.text)

\* The record kept of the match of this round of the inner loop.
Candidate(outcome, confidence) ==
  [pattern |-> pattern, start |-> match.start, textStart |-> match.textStart,
   question_id |-> q_id,
   question_text |-> q_text, marker |-> match.marker, outcome |-> outcome,
   confidence |-> confidence]

\* Lines 124-125: the id is in seen_questions, the match is passed over.
Skip ==
  /\ pc = "matched"
  /\ match.ok
  /\ q_id \in seen_questions
  /\ candidates' = Append(candidates, Candidate("skipped", 0))
  /\ pos' = match.end
  /\ pc' = "iterate"
  /\ UNCHANGED <<entry, raw, text, pattern, match, question_matches, seen_questions,
                 result, error>>

\* Line 152 on a match of a pattern without a group named marker:
\* match.group('marker') raises IndexError, which leaves
\* _extract_with_confidence and, through lines 64-66, extract_questions.
Raise ==
  /\ pc = "matched"
  /\ match.ok
  /\ q_id \notin seen_questions
  /\ "marker" \notin match.groups
  /\ candidates' = Append(candidates, Candidate("raised", 0))
  /\ pc' = "raised"
  /\ error' = "IndexError"
  /\ UNCHANGED <<entry, raw, text, pattern, pos, match, question_matches,
                 seen_questions, result>>

\* Accept without line 136: the id is not marked as seen.
AcceptUnseen ==
  /\ pc = "matched"
  /\ match.ok
  /\ q_id \notin seen_questions
  /\ "marker" \in match.groups
  /\ LET confidence == _calculate_confidence(q_text, match)
     IN  /\ confidence > MinConfidence
         /\ question_matches' =
              Append(question_matches,
                     [question_id |-> q_id, question_text |-> q_text,
                      confidence |-> confidence])
         /\ candidates' = Append(candidates, Candidate("accepted", confidence))
  /\ pos' = match.end
  /\ pc' = "iterate"
  /\ UNCHANGED <<entry, raw, text, pattern, match, seen_questions, result, error>>

\* Lines 128-136 with confidence > 0.5: the match is appended and its id
\* marked as seen.
Accept ==
  /\ pc = "matched"
  /\ match.ok
  /\ q_id \notin seen_questions
  /\ "marker" \in match.groups
  /\ LET confidence == _calculate_confidence(q_text, match)
     IN  /\ confidence > MinConfidence
         /\ question_matches' =
              Append(question_matches,
                     [question_id |-> q_id, question_text |-> q_text,
                      confidence |-> confidence])
         /\ candidates' = Append(candidates, Candidate("accepted", confidence))
  /\ seen_questions' = seen_questions \cup {q_id}
  /\ pos' = match.end
  /\ pc' = "iterate"
  /\ UNCHANGED <<entry, raw, text, pattern, match, result, error>>

\* Lines 128-130 with confidence <= 0.5: nothing is kept of the match.
Reject ==
  /\ pc = "matched"
  /\ match.ok
  /\ q_id \notin seen_questions
  /\ "marker" \in match.groups
  /\ LET confidence == _calculate_confidence(q_text, match)
     IN  /\ confidence <= MinConfidence
         /\ candidates' = Append(candidates, Candidate("rejected", confidence))
  /\ pos' = match.end
  /\ pc' = "iterate"
  /\ UNCHANGED <<entry, raw, text, pattern, match, question_matches, seen_questions,
                 result, error>>

\* Line 116: the matches of this pattern are used up, the next pattern is
\* searched from the beginning of the text.
NextPattern ==
  /\ pc = "matched"
  /\ ~match.ok
  /\ pattern < Len(PATTERNS)
  /\ pattern' = pattern + 1
  /\ pos' = 1
  /\ pc' = "iterate"
  /\ UNCHANGED <<entry, raw, text, match, question_matches, seen_questions,
                 candidates, result, error>>

\* Line 138: after the last pattern the list is returned sorted by id;
\* extract_questions goes on to _post_process_questions (line 60).
ReturnSorted ==
  /\ pc = "matched"
  /\ ~match.ok
  /\ pattern = Len(PATTERNS)
  /\ question_matches' = SortById(question_matches)
  /\ pc' = IF entry = "extract_questions" THEN "post" ELSE "returned"
  /\ UNCHANGED <<entry, raw, text, pattern, pos, match, seen_questions, candidates,
                 result, error>>

\* Lines 60-62, and _post_process_questions called directly.
PostProcess ==
  /\ pc = "post"
  /\ result' = _post_process_questions(question_matches)
  /\ pc' = "returned"
  /\ UNCHANGED <<entry, raw, text, pattern, pos, match, question_matches,
                 seen_questions, candidates, error>>

Next ==
  \/ Clean
  \/ Iterate
  \/ Skip
  \/ Raise
  \/ Accept
  \/ Reject
  \/ NextPattern
  \/ ReturnSorted
  \/ PostProcess

Spec == Init /\ [][Next]_vars

\* ------------------------------------------------------------------ claims

Pipeline == entry = "extract_questions"

Direct == entry = "_extract_with_confidence"

Ids(ms) == [i \in DOMAIN ms |-> ms[i].question_id]

StrictlyAscending(ids) == \A i \in 1..(Len(ids) - 1) : ids[i] < ids[i + 1]

\* The ids of the candidates that were accepted, in the order of acceptance.
AcceptedIds ==
  LET Accepted(c) == c.outcome = "accepted"
  IN  Ids(SelectSeq(candidates, Accepted))

\* The matches of pattern k that stand in t, wherever the scan would start.
MatchesOf(k, t) ==
  {MatchAt(PATTERNS[k], t, p) : p \in {q \in 1..Len(t) : MatchAt(PATTERNS[k], t, q).ok}}

FirstBody ==
  <<"F","i","r","s","t"," ","q","u","e","s","t","i","o","n"," ","t","e",
    "x","t"," ","h","e","r","e",".">>

SecondBody ==
  <<"S","e","c","o","n","d"," ","q","u","e","s","t","i","o","n"," ","t",
    "e","x","t"," ","h","e","r","e",".">>

WhatIsX == <<"W","h","a","t"," ","i","s"," ","X","?">>

\* C1. Boundary capture: the pipeline on "Q1. First question text here Q2.
\* Second question text here" returns exactly the records (1, "First question
\* text here.") and (2, "Second question text here."); and two
\* explicit-marker questions with different ids that follow each other in
\* the raw text, each with a body, are returned as two records.
C1_BoundaryCapture ==
  (Pipeline /\ pc = "returned") =>
    /\ raw = BoundaryExample =>
         result = <<[question_id |-> 1, question |-> FirstBody],
                    [question_id |-> 2, question |-> SecondBody]>>
    /\ \A m \in MatchesOf(1, raw) : \A n \in MatchesOf(1, raw) :
         ( /\ m.end <= n.start
           /\ IntOf(m.id) # IntOf(n.id)
           /\ Strip(m.text) # <<>>
           /\ Strip(n.text) # <<>> ) =>
           {IntOf(m.id), IntOf(n.id)} \subseteq Range(Ids(result))

\* The text the called function was given.
InputText == IF Pipeline THEN raw ELSE text

\* The ids that an explicit-marker question and a bare-numeral question of
\* the text t share, each with a body.
SharedIds(t) ==
  LET QuestionIds(k) == {IntOf(m.id) : m \in {n \in MatchesOf(k, t) : Strip(n.text) # <<>>}}
  IN  QuestionIds(1) \cap QuestionIds(2)

\* C2. Precedence: when the input text holds an explicit-marker question and
\* a bare-numeral question with the same id, extraction completes, the one
\* candidate kept for the id is the explicit-marker one, and every
\* bare-numeral match of the id is passed over.
C2_Precedence ==
  (entry # "_post_process_questions" /\ pc \in {"post", "returned", "raised"}) =>
    \A id \in SharedIds(InputText) :
      /\ pc # "raised"
      /\ \E i \in DOMAIN candidates :
           /\ candidates[i].pattern = 1
           /\ candidates[i].question_id = id
           /\ candidates[i].outcome = "accepted"
           /\ \A j \in DOMAIN question_matches :
                question_matches[j].question_id = id =>
                  question_matches[j].question_text = candidates[i].question_text
      /\ Cardinality({j \in DOMAIN question_matches :
                        question_matches[j].question_id = id}) = 1
      /\ \A i \in DOMAIN candidates :
           (candidates[i].pattern = 2 /\ candidates[i].question_id = id) =>
             candidates[i].outcome = "skipped"

\* C3. The scorer is total: every match whose id is not yet claimed gets a
\* confidence between 0 and 1, whichever pattern produced it; no match makes
\* the extraction fail.
C3_ScorerTotal ==
  /\ pc # "raised"
  /\ error = ""
  /\ \A i \in DOMAIN candidates :
       /\ candidates[i].outcome \in {"skipped", "accepted", "rejected"}
       /\ candidates[i].confidence \in 0..1000

\* C4. Threshold: a candidate is accepted exactly if its score is above 0.5,
\* and a candidate with a body of fewer than 10 characters, no marker and no
\* '?' scores exactly 0.5 and is rejected; only accepted candidates claim
\* their id.
C4_ThresholdRejection ==
  /\ \A i \in DOMAIN candidates :
       candidates[i].outcome # "skipped" =>
         /\ candidates[i].outcome = "accepted" <=> candidates[i].confidence > MinConfidence
         /\ ( /\ Len(candidates[i].question_text) < 10
              /\ candidates[i].marker = <<>>
              /\ "?" \notin Range(candidates[i].question_text) ) =>
              /\ candidates[i].outcome = "rejected"
              /\ candidates[i].confidence = MinConfidence
  /\ entry # "_post_process_questions" =>
       seen_questions = Range(AcceptedIds)

\* What _final_clean is to make of the text t: the text with its whitespace
\* runs collapsed and its ends trimmed.
Trimmed(t) == Strip(Chars(SubWhitespace(t, 1)))

\* C5. Every record of _post_process_questions has the keys question_id and
\* question and a question that is not empty and ends in '.' or '?'; a
\* candidate whose trimmed text is empty gives no record; the others give
\* one record each, in order, with '.' appended exactly when the trimmed text
\* ends in neither '.' nor '?'.
C5_RecordsWellFormed ==
  pc = "returned" /\ entry # "_extract_with_confidence" =>
    LET NonEmpty(m) == \E j \in DOMAIN m.question_text :
                         m.question_text[j] \notin Whitespace
        kept == SelectSeq(question_matches, NonEmpty)
    IN  /\ Len(result) = Len(kept)
        /\ \A i \in DOMAIN result :
             LET q == result[i].question
                 s == Trimmed(kept[i].question_text)
             IN  /\ DOMAIN result[i] = {"question_id", "question"}
                 /\ result[i].question_id = kept[i].question_id
                 /\ q # <<>>
                 /\ q[Len(q)] \in {".", "?"}
                 /\ IF s[Len(s)] \in {".", "?"} THEN q = s ELSE q = Append(s, ".")

\* C5 witness: _post_process_questions has returned a list in which a
\* candidate was dropped, one got its '.' and one kept its own ending.
C5_Witness ==
  /\ pc = "returned"
  /\ entry = "_post_process_questions"
  /\ Len(result) < Len(question_matches)
  /\ \E i \in DOMAIN question_matches :
       /\ Trimmed(question_matches[i].question_text) # <<>>
       /\ \E j \in DOMAIN result :
            result[j].question = Append(Trimmed(question_matches[i].question_text), ".")

\* C6. The list _extract_with_confidence returns is strictly ascending by
\* id (sorted, no id twice), and so is the list of records
\* _post_process_questions makes of such a list.
C6_StrictlyAscending ==
  /\ (entry # "_post_process_questions" /\ pc \in {"post", "returned"}) =>
       StrictlyAscending(Ids(question_matches))
  /\ pc = "returned" => StrictlyAscending(Ids(result))

\* C6 witness: _extract_with_confidence has returned two or more candidates
\* that were accepted in another order than ascending.
C6_Witness ==
  /\ Direct
  /\ pc = "returned"
  /\ Len(question_matches) >= 2
  /\ ~StrictlyAscending(AcceptedIds)

\* Whether the n cells at position a stem from n neighbouring positions of
\* the raw text: what they spell stood as it is in the raw text.
Unbroken(cells, a, n) ==
  /\ cells[a].from > 0
  /\ \A j \in 1..(n - 1) : cells[a + j].from = cells[a].from + j

NextStartToken(k, t, p) ==
  Min({q \in p..Len(t) : StartToken(PATTERNS[k], t, q)} \cup {Len(t) + 1})

\* C8. Multi-line body capture: the body of a match runs from just after
\* its id and separator to just before the next start token of the same
\* pattern, or to the end of the text.
C8_MultiLineBody ==
  \A i \in DOMAIN candidates :
    candidates[i].question_text =
      Strip(SubSeq(text, candidates[i].textStart,
                   NextStartToken(candidates[i].pattern, text, candidates[i].textStart) - 1))

\* C9 as stated: of the matches of one pattern with the same id only the
\* first can be accepted.
C9_OnlyFirstOccurrence ==
  \A i \in DOMAIN candidates : \A j \in DOMAIN candidates :
    ( /\ i < j
      /\ candidates[i].pattern = candidates[j].pattern
      /\ candidates[i].question_id = candidates[j].question_id ) =>
      candidates[j].outcome # "accepted"

\* C9 (as amended). Of the matches of one pattern with the same id, a later
\* one is passed over once an earlier one was accepted; a later one is
\* accepted only if every earlier one scored 0.5 or less and was rejected.
C9_FirstAcceptedOccurrence ==
  \A i \in DOMAIN candidates : \A j \in DOMAIN candidates :
    ( /\ i < j
      /\ candidates[i].pattern = candidates[j].pattern
      /\ candidates[i].question_id = candidates[j].question_id ) =>
      /\ candidates[i].outcome = "accepted" => candidates[j].outcome = "skipped"
      /\ candidates[j].outcome = "accepted" =>
           /\ candidates[i].outcome = "rejected"
           /\ candidates[i].confidence <= MinConfidence

\* C9 witness: one pattern has matched the same id twice, the first match
\* was accepted and the second passed over.
C9_Witness ==
  \E i \in DOMAIN candidates : \E j \in DOMAIN candidates :
    /\ i < j
    /\ candidates[i].pattern = candidates[j].pattern
    /\ candidates[i].question_id = candidates[j].question_id
    /\ candidates[i].outcome = "accepted"
    /\ candidates[j].outcome = "skipped"

\* C10. The pipeline returns at most one record: the cleaned text holds no
\* line break, so a match can only start at its first position, and at most
\* one candidate is accepted.
C10_AtMostOneRecord ==
  (Pipeline /\ pc # "clean") =>
    /\ "\n" \notin Range(text)
    /\ \A i \in DOMAIN candidates : candidates[i].start = 1
    /\ Len(candidates) <= 1
    /\ Len(question_matches) <= 1
    /\ Len(result) <= 1

\* C10 witness: the pipeline has returned one record for a raw text of
\* several lines that each start a question of some pattern.
C10_Witness ==
  /\ Pipeline
  /\ pc = "returned"
  /\ Len(result) = 1
  /\ \E k \in DOMAIN PATTERNS : \E l \in DOMAIN PATTERNS :
       \E m \in MatchesOf(k, raw) : \E n \in MatchesOf(l, raw) :
         m.start < n.start /\ IntOf(m.id) # IntOf(n.id)

====
